---- MODULE Spec2Model ----
(***************************************************************************)
(* A model of logical-clocks-rs: the Lamport clock of src/lamport_clock.rs *)
(* (one atomic u64 counter shared by several threads) and the vector clock *)
(* of src/vclock.rs (a map from Identifier to u64).                        *)
(***************************************************************************)
EXTENDS Integers, Naturals, Sequences, FiniteSets, TLC

(***************************************************************************)
(* Bounds of the model.                                                    *)
(***************************************************************************)
\* u64 is modelled at Width bits: counters range over 0 .. 2^Width - 1.
Width == 3
\* Threads sharing one LamportClock.
NumThreads == 2
\* Calls each thread makes on the shared clock.
MaxCalls == 2
\* Calls made on the shared clock by all threads together, when compare() is among them.
MaxOps == 2
\* Remote counters offered to compare(): 0 .. MaxRemote, and the top of u64.
MaxRemote == 2

\* Identifiers known to the vector clocks.
NumNodes == 2
\* Largest entry of the vector clocks drawn as inputs.
MaxEntry == 2

U64Max == 2 ^ Width - 1

Threads == 1 .. NumThreads

\* Identifier(pub Vec<u8>): byte strings; the empty one, a string, a proper
\* extension of it and a string with a greater first byte.
Ids == { <<>>, <<1>>, <<1, 0>>, <<2>> }

\* The owner given to the clock at construction: one with identifiers below it,
\* equal to it and above it among Ids.
LocalIds == { <<1>> }

(***************************************************************************)
(* Identifier and LamportTime orderings.                                   *)
(***************************************************************************)
U64Cmp(a, b) == IF a < b THEN "Less" ELSE IF a > b THEN "Greater" ELSE "Equal"

\* derive(Ord) on Identifier(Vec<u8>): lexicographic comparison of the bytes.
RECURSIVE IdentifierCmp(_, _)
IdentifierCmp(a, b) ==
    IF a = <<>> /\ b = <<>> THEN "Equal"
    ELSE IF a = <<>> THEN "Less"
    ELSE IF b = <<>> THEN "Greater"
    ELSE IF Head(a) # Head(b) THEN U64Cmp(Head(a), Head(b))
    ELSE IdentifierCmp(Tail(a), Tail(b))

\* LamportTime(pub u64, pub Identifier) is the pair <<counter, owner>>.
LamportTime(c, o) == <<c, o>>

\* self.0.cmp(&other.0).then_with(|| self.1.cmp(&other.1))
LamportTimeCmp(x, y) ==
    IF U64Cmp(x[1], y[1]) # "Equal" THEN U64Cmp(x[1], y[1])
    ELSE IdentifierCmp(x[2], y[2])

\* other_time <= current_time through PartialOrd (partial_cmp == Some(cmp)).
LamportTimeLe(x, y) == LamportTimeCmp(x, y) # "Greater"

LamportTimeLt(x, y) == LamportTimeCmp(x, y) = "Less"

\* Wrapping u64 addition (fetch_add, and `+` without overflow checks).
WrappingAdd(a, b) == (a + b) % (U64Max + 1)

\* `a + b` overflows u64.
Overflows(a, b) == a + b > U64Max

Remotes == { LamportTime(c, o) : c \in (0 .. MaxRemote) \cup {U64Max - 1, U64Max}, o \in Ids }

(***************************************************************************)
(* State.                                                                  *)
(***************************************************************************)
VARIABLES
    counter,          \* LamportClock.counter: AtomicU64
    id,               \* LamportClock.id
    overflow_checks,  \* build profile: does `+` panic on overflow (debug) or wrap (release)
    pc,               \* per thread: where it is in increment() / compare()
    other_time,       \* per thread: the argument of the compare() in progress
    current_time,     \* per thread: the counter loaded by compare() (current_time.0)
    old_value,        \* per thread: the value fetch_add returned
    calls,            \* per thread: calls started
    rets,             \* per thread: the counters returned by its increment() calls, in order
    observed,         \* the result of the last time() call, or NoTime
    covered,          \* per thread: its compare() was called with a time <= one already witnessed
    witnessed         \* the greatest remote time whose compare() call has returned, or NoTime

    ,
    a,                \* a VClock: its vector, a map Identifier -> u64
    b,                \* another VClock
    a0,               \* the vector a was created with
    b0,               \* the vector b was created with
    merges,           \* the merges made since, in order: "ab" is a.merge(&b), "ba" is b.merge(&a)
    hb_result,        \* the result ("true", "false") of a.happened_before(&b) on the present a and b
    cmp_result,       \* the result of the last a.time().partial_cmp(&b.time()) on them
    clock_c,          \* a third VClock
    rel,              \* results of further comparisons among a, b and clock_c, by name
    clock_v,          \* a VClock under a sequence of increment() and merge() calls
    last_op,          \* the last call made on clock_v: what it was, on what, and the clock before it
    data,             \* a byte string, and where it is from: to_bytes() of the clock, or received
    decoded,          \* the result of LamportClock::from_bytes() on those bytes
    vcs,              \* per process of a system: its VClock
    events,           \* the events of the system so far, each with its attached snapshot
    lclocks,          \* per process of a system: the counter of its LamportClock
    levents           \* the events of that system so far, each with its timestamp

lamport_vars == << counter, id, overflow_checks, pc, other_time, current_time, old_value,
                   calls, rets, observed, covered, witnessed >>

vclock_vars == << a, b, a0, b0, merges, hb_result, cmp_result >>

ord_vars == << clock_c, rel >>

ops_vars == << clock_v, last_op >>

bytes_vars == << data, decoded >>

sys_vars == << vcs, events >>

lam_vars == << lclocks, levents >>

\* The state besides the shared LamportClock and the clocks a and b.
ext_vars == << ord_vars, ops_vars, bytes_vars, sys_vars, lam_vars >>

vars == << lamport_vars, vclock_vars, ext_vars >>

NoTime == <<>>

(***************************************************************************)
(* LamportClock.                                                           *)
(***************************************************************************)
\* LamportClock::with_custom_identifier(bytes) / with_new_identifier(id) / new():
\* the counter starts at 1.
InitialCounter == 1

EmptyVector == << >>

NoResult == "none"

\* No vector clock is in use.
VClockIdle ==
    /\ a = EmptyVector
    /\ b = EmptyVector
    /\ a0 = EmptyVector
    /\ b0 = EmptyVector
    /\ merges = <<>>
    /\ hb_result = NoResult
    /\ cmp_result = NoResult

NoOp == [op |-> "none", node |-> << >>, was |-> "none", prev |-> "none", panicked |-> FALSE]

\* No bytes yet.
NoData == [bytes |-> << >>, of |-> "none"]

\* LamportClock::from_bytes() not yet called.
NotDecoded == [called |-> FALSE, some |-> FALSE, counter |-> 0, id |-> << >>]

OrdIdle == clock_c = EmptyVector /\ rel = << >>

OpsIdle == clock_v = EmptyVector /\ last_op = NoOp

BytesIdle == data = NoData /\ decoded = NotDecoded

SysIdle == vcs = << >> /\ events = << >>

LamIdle == lclocks = << >> /\ levents = << >>

\* Nothing but the shared LamportClock and the clocks a and b is in use.
ExtIdle == OrdIdle /\ OpsIdle /\ BytesIdle /\ SysIdle /\ LamIdle

LamportInit ==
    /\ counter = InitialCounter
    /\ id \in LocalIds
    /\ overflow_checks \in BOOLEAN
    /\ pc = [t \in Threads |-> "idle"]
    /\ other_time = [t \in Threads |-> NoTime]
    /\ current_time = [t \in Threads |-> 0]
    /\ old_value = [t \in Threads |-> 0]
    /\ calls = [t \in Threads |-> 0]
    /\ rets = [t \in Threads |-> <<>>]
    /\ observed = NoTime
    /\ covered = [t \in Threads |-> FALSE]
    /\ witnessed = NoTime

Init == LamportInit /\ VClockIdle /\ ExtIdle

\* time(): LamportTime(self.counter.load(SeqCst), self.id.clone())
Time == LamportTime(counter, id)

TimeCall(t) ==
    /\ pc[t] = "idle"
    /\ observed' = Time
    /\ UNCHANGED << counter, id, overflow_checks, pc, other_time, current_time, old_value,
                    calls, rets, covered, witnessed >>
    /\ UNCHANGED << vclock_vars, ext_vars >>

\* The atomic step of increment(): self.counter.fetch_add(1, SeqCst), which wraps.
FetchAddLost(c) == c

FetchAdd(c) == WrappingAdd(c, 1)

Increment(t) ==
    /\ pc[t] = "idle"
    /\ calls[t] < MaxCalls
    /\ calls' = [calls EXCEPT ![t] = @ + 1]
    /\ old_value' = [old_value EXCEPT ![t] = counter]
    /\ counter' = FetchAdd(counter)
    /\ pc' = [pc EXCEPT ![t] = "inc_ret"]
    /\ UNCHANGED << id, overflow_checks, other_time, current_time, rets, observed,
                    covered, witnessed >>
    /\ UNCHANGED << vclock_vars, ext_vars >>

\* The value increment() returns: LamportTime(old_value + 1, self.id.clone()).
IncrementResultOld(old) == old

IncrementResult(old) == WrappingAdd(old, 1)

IncReturn(t) ==
    /\ pc[t] = "inc_ret"
    /\ IF Overflows(old_value[t], 1) /\ overflow_checks
       THEN /\ pc' = [pc EXCEPT ![t] = "panicked"]
            /\ UNCHANGED << rets, old_value >>
       ELSE /\ pc' = [pc EXCEPT ![t] = "idle"]
            /\ rets' = [rets EXCEPT ![t] = Append(@, IncrementResult(old_value[t]))]
            /\ old_value' = [old_value EXCEPT ![t] = 0]
    /\ UNCHANGED << counter, id, overflow_checks, other_time, current_time,
                    calls, observed, covered, witnessed >>
    /\ UNCHANGED << vclock_vars, ext_vars >>

\* The test of the loop: other_time <= current_time.
CompareSkipsInverted(other, current) == LamportTimeLe(current, other)

CompareSkips(other, current) == LamportTimeLe(other, current)

\* The greater of two times, NoTime being below every time.
MaxTime(w, r) == IF w = NoTime \/ LamportTimeLt(w, r) THEN r ELSE w

\* compare() returns: its locals are dropped, its argument has been witnessed.
CompareReturns(t, r) ==
    /\ pc' = [pc EXCEPT ![t] = "idle"]
    /\ witnessed' = MaxTime(witnessed, r)
    /\ other_time' = [other_time EXCEPT ![t] = NoTime]
    /\ current_time' = [current_time EXCEPT ![t] = 0]
    /\ covered' = [covered EXCEPT ![t] = FALSE]

\* let current_time = LamportTime(self.counter.load(SeqCst), self.id.clone());
\* if other_time <= current_time { return; }
LoadAndTest(t, r, cov) ==
    /\ counter' = counter
    /\ IF CompareSkips(r, LamportTime(counter, id))
       THEN CompareReturns(t, r)
       ELSE /\ pc' = [pc EXCEPT ![t] = "cmp_cas"]
            /\ other_time' = [other_time EXCEPT ![t] = r]
            /\ current_time' = [current_time EXCEPT ![t] = counter]
            /\ covered' = [covered EXCEPT ![t] = cov]
            /\ UNCHANGED witnessed

\* compare(other_time) is called and runs up to its first test.
CompareCall(t, r) ==
    /\ pc[t] = "idle"
    /\ calls[t] < MaxCalls
    /\ calls' = [calls EXCEPT ![t] = @ + 1]
    /\ LoadAndTest(t, r, witnessed # NoTime /\ LamportTimeLe(r, witnessed))
    /\ UNCHANGED << id, overflow_checks, old_value, rets, observed >>
    /\ UNCHANGED << vclock_vars, ext_vars >>

\* The loop of compare() comes round again after a failed compare_exchange.
CmpLoad(t) ==
    /\ pc[t] = "cmp_load"
    /\ LoadAndTest(t, other_time[t], covered[t])
    /\ UNCHANGED << id, overflow_checks, old_value, calls, rets, observed >>
    /\ UNCHANGED << vclock_vars, ext_vars >>

\* compare_exchange(current, new): succeeds iff the counter still holds `current`.
CompareExchangeOk(c, current) == c = current

\* The value compare() stores: other_time.0 + 1.
CompareNewValue(other) == WrappingAdd(other[1], 1)

\* self.counter.compare_exchange(current_time.0, other_time.0 + 1, SeqCst, SeqCst):
\* the argument other_time.0 + 1 is evaluated first (and panics on overflow in a
\* build with overflow checks); Ok(_) => break, Err(_) => continue.
CmpCas(t) ==
    /\ pc[t] = "cmp_cas"
    /\ IF Overflows(other_time[t][1], 1) /\ overflow_checks
       THEN /\ pc' = [pc EXCEPT ![t] = "panicked"]
            /\ counter' = counter
            /\ UNCHANGED << witnessed, current_time, other_time, covered >>
       ELSE IF CompareExchangeOk(counter, current_time[t])
       THEN /\ counter' = CompareNewValue(other_time[t])
            /\ CompareReturns(t, other_time[t])
       ELSE /\ counter' = counter
            /\ pc' = [pc EXCEPT ![t] = "cmp_load"]
            /\ current_time' = [current_time EXCEPT ![t] = 0]
            /\ UNCHANGED << witnessed, other_time, covered >>
    /\ UNCHANGED << id, overflow_checks, old_value, calls, rets, observed >>
    /\ UNCHANGED << vclock_vars, ext_vars >>

RECURSIVE SumCalls(_)
SumCalls(S) == IF S = {} THEN 0 ELSE LET t == CHOOSE x \in S : TRUE
                                     IN calls[t] + SumCalls(S \ {t})

\* The calls started so far, by all threads.
TotalCalls == SumCalls(Threads)

Next ==
    \E t \in Threads :
        \/ TimeCall(t)
        \/ TotalCalls < MaxOps /\ Increment(t)
        \/ IncReturn(t)
        \/ TotalCalls < MaxOps /\ \E r \in Remotes : CompareCall(t, r)
        \/ CmpLoad(t)
        \/ CmpCas(t)

Spec == Init /\ [][Next]_vars

\* N threads, each calling increment() MaxCalls times and time() at will.
NextInc ==
    \E t \in Threads :
        \/ TimeCall(t)
        \/ Increment(t)
        \/ IncReturn(t)

SpecInc == Init /\ [][NextInc]_vars

\* One thread alone on the clock: compare_exchange never fails, so the loop of
\* compare() never comes round.
NextSeq ==
    \/ TimeCall(1)
    \/ Increment(1)
    \/ IncReturn(1)
    \/ \E r \in Remotes : CompareCall(1, r)
    \/ CmpCas(1)

SpecSeq == Init /\ [][NextSeq]_vars

(***************************************************************************)
(* Properties of the Lamport clock.                                        *)
(***************************************************************************)
\* The increment() results so far, as (thread, index) positions.
RetPositions == { <<t, i>> : t \in Threads, i \in 1 .. MaxCalls } \cap
                { p \in Threads \X (1 .. MaxCalls) : p[2] <= Len(rets[p[1]]) }

RetAt(p) == rets[p[1]][p[2]]

RetsDistinct == \A p, q \in RetPositions : p # q => RetAt(p) # RetAt(q)

RetsIncreasingPerThread ==
    \A t \in Threads : \A i, j \in 1 .. Len(rets[t]) : i < j => rets[t][i] < rets[t][j]

AllIncrementsDone == \A t \in Threads : Len(rets[t]) = MaxCalls

\* C1: N threads each calling increment() M times on a fresh clock get pairwise
\* distinct counters, exactly the values 2 .. N*M+1, each thread's own results
\* strictly increasing, and time() afterwards reports N*M+1.
C1_NoLostUpdate ==
    /\ RetsDistinct
    /\ RetsIncreasingPerThread
    /\ \A p \in RetPositions : RetAt(p) \in 2 .. (NumThreads * MaxCalls + 1)
    /\ AllIncrementsDone =>
         /\ { RetAt(p) : p \in RetPositions } = 2 .. (NumThreads * MaxCalls + 1)
         /\ Time = LamportTime(NumThreads * MaxCalls + 1, id)

\* All increments are done and those of two threads were interleaved.
C1_Witness ==
    /\ AllIncrementsDone
    /\ \E t \in Threads : rets[t][2] > rets[t][1] + 1

\* C2: the counter starts at 1 and no step decreases it, as long as the counter
\* and the remote counter being stored are below the maximum of the integer type.
C2_CounterMonotonic ==
    /\ counter = 1
    /\ [][ ( /\ counter < U64Max
             /\ \A t \in Threads : pc[t] = "cmp_cas" => other_time[t][1] < U64Max )
           => counter' >= counter ]_vars

\* A compare() has raised the counter past a value an increment() returned.
C2_Witness ==
    /\ witnessed # NoTime
    /\ counter = witnessed[1] + 1
    /\ \E t \in Threads : Len(rets[t]) > 0 /\ rets[t][1] < counter

\* C3 as stated (integer arithmetic): alone on the clock, a compare(remote) with
\* remote > local goes on to store remote.counter + 1 and return; one with
\* remote <= local returns at once with the counter unchanged.
C3_CompareSequential ==
    [][ /\ \A r \in Remotes : CompareCall(1, r) =>
              IF LamportTimeLt(Time, r)
              THEN pc'[1] = "cmp_cas" /\ counter' = counter
              ELSE pc'[1] = "idle" /\ counter' = counter
        /\ CmpCas(1) =>
              /\ current_time[1] = counter
              /\ pc'[1] = "idle"
              /\ counter' = other_time[1][1] + 1 ]_vars

\* The same for every remote counter below the maximum of the integer type.
C3_CompareSequentialBelowMax ==
    [][ /\ \A r \in Remotes : CompareCall(1, r) =>
              IF LamportTimeLt(Time, r)
              THEN pc'[1] = "cmp_cas" /\ counter' = counter
              ELSE pc'[1] = "idle" /\ counter' = counter
        /\ (CmpCas(1) /\ other_time[1][1] < U64Max) =>
              /\ current_time[1] = counter
              /\ pc'[1] = "idle"
              /\ counter' = other_time[1][1] + 1 ]_vars

\* C4 as stated: a compare_exchange of compare() changes the counter only when it
\* still holds the loaded value, the values increment() returned are pairwise
\* distinct, and the counter is never below a value increment() has returned.
C4_NoIncrementOverwritten ==
    /\ [][ \A t \in Threads :
             (CmpCas(t) /\ pc'[t] = "idle") => counter = current_time[t] ]_vars
    /\ [](RetsDistinct /\ \A p \in RetPositions : counter >= RetAt(p))

\* No compare() has stored the maximum of the integer type or wrapped past it.
NoWrapSoFar ==
    /\ witnessed # NoTime => witnessed[1] + 1 < U64Max
    /\ \A t \in Threads : pc[t] # "panicked"

\* C4 for runs in which the counter stays below the maximum of the integer type.
C4_BelowMax == NoWrapSoFar => (RetsDistinct /\ \A p \in RetPositions : counter >= RetAt(p))

\* C5 as stated: a compare(remote') called after a compare(remote) has returned,
\* with remote' <= remote, leaves the counter unchanged.
C5_CompareIdempotent ==
    [][ \A t \in Threads : (covered[t] /\ CmpCas(t)) => counter' = counter ]_vars

\* C5 for runs in which the counter stays below the maximum of the integer type:
\* such a compare() returns at its first test.
C5_BelowMax == NoWrapSoFar => \A t \in Threads : ~covered[t]

\* C6: alone on a fresh clock, the k-th increment() returns k+1, and time() then
\* reports the last returned counter and leaves the counter as it is.
AloneSoFar(t) == \A u \in Threads \ {t} : calls[u] = 0

C6_SequentialIncrements ==
    /\ counter = 1
    /\ [](\A t \in Threads : AloneSoFar(t) =>
            /\ \A k \in 1 .. Len(rets[t]) : rets[t][k] = k + 1
            /\ pc[t] = "idle" => counter = Len(rets[t]) + 1)
    /\ [][ \A t \in Threads : (AloneSoFar(t) /\ TimeCall(t)) =>
            /\ observed' = LamportTime(Len(rets[t]) + 1, id)
            /\ counter' = counter ]_vars

\* One thread alone has made all its increments and then read the time.
C6_Witness ==
    \E t \in Threads :
        /\ AloneSoFar(t)
        /\ Len(rets[t]) = MaxCalls
        /\ observed = LamportTime(MaxCalls + 1, id)

(***************************************************************************)
(* VClock: a HashMap<Identifier, u64>, modelled as a function whose domain *)
(* is the set of keys present.  A HashMap is iterated in an arbitrary      *)
(* order: every loop below runs along a sequence `ord` of the keys, and    *)
(* the actions choose it freely.                                           *)
(***************************************************************************)
Nodes == { <<n>> : n \in 1 .. NumNodes }

\* The vectors a clock can hold: VClock::new() is the empty one, with_vector()
\* gives seeded zero entries, increment() and merge() raise entries.
Vectors == UNION { [D -> 0 .. MaxEntry] : D \in SUBSET Nodes }

\* The orders in which the keys S may be iterated.
Orders(S) == { o \in [1 .. Cardinality(S) -> S] : \A i, j \in 1 .. Cardinality(S) :
                                                     i # j => o[i] # o[j] }

Max(x, y) == IF x >= y THEN x ELSE y

\* map.get(key).unwrap_or(&0)
GetOrZero(v, key) == IF key \in DOMAIN v THEN v[key] ELSE 0

\* VClock::time(): VClockTime(self.vector.clone())
VClockTime(v) == v

\* *entry = (*entry).max(counter)
MergeEntryOverwrite(entry, cnt) == cnt

MergeEntry(entry, cnt) == Max(entry, cnt)

\* One turn of the loop of merge(): entry(node).or_insert(0), then the max.
MergeStepPresentOnly(self, node, cnt) ==
    IF node \in DOMAIN self
    THEN [k \in DOMAIN self |-> IF k = node THEN MergeEntry(self[k], cnt) ELSE self[k]]
    ELSE self

MergeStep(self, node, cnt) ==
    [k \in DOMAIN self \cup {node} |->
        IF k = node THEN MergeEntry(GetOrZero(self, node), cnt) ELSE self[k]]

\* merge(&mut self, other): for (node, &counter) in &other.vector { ... }
RECURSIVE Merge(_, _, _)
Merge(self, other, ord) ==
    IF ord = <<>> THEN self
    ELSE Merge(MergeStep(self, Head(ord), other[Head(ord)]), other, Tail(ord))

\* The first loop of happened_before(), over self.vector: `returned` says that it
\* hit `return false`, `hb` is the flag happened_before.
HappenedBeforeFirstLoopNoReturn(self, other, ord, hb) ==
    [returned |-> FALSE,
     hb |-> hb \/ \E k \in DOMAIN self : self[k] < GetOrZero(other, k)]

RECURSIVE HappenedBeforeFirstLoop(_, _, _, _)
HappenedBeforeFirstLoop(self, other, ord, hb) ==
    IF ord = <<>> THEN [returned |-> FALSE, hb |-> hb]
    ELSE LET self_counter == self[Head(ord)]
             other_counter == GetOrZero(other, Head(ord))
         IN IF self_counter > other_counter
            THEN [returned |-> TRUE, hb |-> FALSE]
            ELSE HappenedBeforeFirstLoop(self, other, Tail(ord),
                                         hb \/ self_counter < other_counter)

\* The second loop of happened_before(), over other.vector.
HappenedBeforeSecondLoopSkipped(self, other, ord, hb) == hb

RECURSIVE HappenedBeforeSecondLoop(_, _, _, _)
HappenedBeforeSecondLoop(self, other, ord, hb) ==
    IF ord = <<>> THEN hb
    ELSE LET other_counter == other[Head(ord)]
             self_counter == GetOrZero(self, Head(ord))
         IN HappenedBeforeSecondLoop(self, other, Tail(ord), hb \/ other_counter > self_counter)

\* happened_before(&self, other)
HappenedBeforeOrEqual(self, other, ord1, ord2) ==
    LET first == HappenedBeforeFirstLoop(self, other, ord1, TRUE)
    IN IF first.returned THEN FALSE
       ELSE HappenedBeforeSecondLoop(self, other, ord2, first.hb)

HappenedBefore(self, other, ord1, ord2) ==
    LET first == HappenedBeforeFirstLoop(self, other, ord1, FALSE)
    IN IF first.returned THEN FALSE
       ELSE HappenedBeforeSecondLoop(self, other, ord2, first.hb)

\* let keys: HashSet<_> = self.0.keys().chain(other.0.keys()).collect();
PartialCmpKeysSelfOnly(x, y) == DOMAIN x

PartialCmpKeys(x, y) == DOMAIN x \cup DOMAIN y

\* The loop of partial_cmp() and the match after it; "None" is Option::None.
RECURSIVE PartialCmpLoop(_, _, _, _, _)
PartialCmpLoop(x, y, ord, is_less, is_greater) ==
    IF ord = <<>>
    THEN IF is_less /\ ~is_greater THEN "Less"
         ELSE IF ~is_less /\ is_greater THEN "Greater"
         ELSE IF ~is_less /\ ~is_greater THEN "Equal"
         ELSE "None"
    ELSE LET self_counter == GetOrZero(x, Head(ord))
             other_counter == GetOrZero(y, Head(ord))
             less == is_less \/ self_counter < other_counter
             greater == is_greater \/ self_counter > other_counter
         IN IF less /\ greater THEN "None"
            ELSE PartialCmpLoop(x, y, Tail(ord), less, greater)

\* <VClockTime as PartialOrd>::partial_cmp(&self, other)
PartialCmp(x, y, ord) == PartialCmpLoop(x, y, ord, FALSE, FALSE)

\* Two clocks are created with any vectors.
VClockInit ==
    /\ a0 \in Vectors
    /\ b0 \in Vectors
    /\ a = a0
    /\ b = b0
    /\ merges = <<>>
    /\ hb_result = NoResult
    /\ cmp_result = NoResult

\* a.merge(&b), on the clocks as created.
MergeAB(ord) ==
    /\ merges = <<>>
    /\ a' = Merge(a, b, ord)
    /\ merges' = Append(merges, "ab")
    /\ hb_result' = NoResult
    /\ cmp_result' = NoResult
    /\ UNCHANGED << b, a0, b0 >>
    /\ UNCHANGED << lamport_vars, ext_vars >>

\* b.merge(&a), on the clocks as created or after a.merge(&b).
MergeBA(ord) ==
    /\ merges \in { <<>>, <<"ab">> }
    /\ b' = Merge(b, a, ord)
    /\ merges' = Append(merges, "ba")
    /\ hb_result' = NoResult
    /\ cmp_result' = NoResult
    /\ UNCHANGED << a, a0, b0 >>
    /\ UNCHANGED << lamport_vars, ext_vars >>

\* a.happened_before(&b)
HappenedBeforeCall(ord1, ord2) ==
    /\ hb_result = NoResult
    /\ hb_result' = IF HappenedBefore(a, b, ord1, ord2) THEN "true" ELSE "false"
    /\ UNCHANGED << a, b, a0, b0, merges, cmp_result >>
    /\ UNCHANGED << lamport_vars, ext_vars >>

\* a.time().partial_cmp(&b.time())
PartialCmpCall(ord) ==
    /\ cmp_result = NoResult
    /\ cmp_result' = PartialCmp(VClockTime(a), VClockTime(b), ord)
    /\ UNCHANGED << a, b, a0, b0, merges, hb_result >>
    /\ UNCHANGED << lamport_vars, ext_vars >>

NextVC ==
    \/ \E ord \in Orders(DOMAIN b) : MergeAB(ord)
    \/ \E ord \in Orders(DOMAIN a) : MergeBA(ord)
    \/ \E ord1 \in Orders(DOMAIN a), ord2 \in Orders(DOMAIN b) : HappenedBeforeCall(ord1, ord2)
    \/ \E ord \in Orders(PartialCmpKeys(VClockTime(a), VClockTime(b))) : PartialCmpCall(ord)

InitVC == LamportInit /\ overflow_checks = FALSE /\ VClockInit /\ ExtIdle

SpecVC == InitVC /\ [][NextVC]_vars

(***************************************************************************)
(* Properties of the vector clock.                                         *)
(***************************************************************************)
\* What merge is to leave in `new`, having merged `other` into `old`.
MergePost(old, other, new) ==
    /\ DOMAIN new = DOMAIN old \cup DOMAIN other
    /\ \A k \in DOMAIN other : new[k] = Max(GetOrZero(old, k), other[k])
    /\ \A k \in DOMAIN old \ DOMAIN other : new[k] = old[k]
    /\ \A k \in DOMAIN old : new[k] >= old[k]

\* C7: after a.merge(b), a's keys are the union of the old key sets, every key of
\* b maps to max(old a[k] or 0, b[k]), every key only in a keeps its value, no
\* entry of a is lower than before, and b is unchanged.
C7_MergePostcondition ==
    /\ merges = <<"ab">> => (MergePost(a0, b0, a) /\ b = b0)
    /\ merges = <<"ba">> => (MergePost(b0, a0, b) /\ a = a0)
    /\ merges = <<"ab", "ba">> => (MergePost(a0, b0, a) /\ MergePost(b0, a, b))

\* {P:2} has merged {Q:1} and holds {P:2, Q:1}.
C7_Witness ==
    /\ merges = <<"ab">>
    /\ a0 = (<<1>> :> 2)
    /\ b0 = (<<2>> :> 1)
    /\ a = (<<1>> :> 2 @@ <<2>> :> 1)
    /\ b = b0

\* C8: the snapshot of A after A.merge(B) equals the snapshot of B after
\* B.merge(A), and after A.merge(B); B.merge(A) the two clocks have equal snapshots.
C8_MergeCommutes ==
    /\ merges = <<"ab">> =>
         \A ord \in Orders(DOMAIN a0) : VClockTime(a) = VClockTime(Merge(b0, a0, ord))
    /\ merges = <<"ba">> =>
         \A ord \in Orders(DOMAIN b0) : VClockTime(b) = VClockTime(Merge(a0, b0, ord))
    /\ merges = <<"ab", "ba">> => VClockTime(a) = VClockTime(b)

\* Both merges are done, A came with a seeded zero entry for a key B lacked and
\* B with an entry for a key A lacked.
C8_Witness ==
    /\ merges = <<"ab", "ba">>
    /\ \E k \in DOMAIN a0 \ DOMAIN b0 : a0[k] = 0
    /\ \E k \in DOMAIN b0 \ DOMAIN a0 : b0[k] > 0

SomeLess(x, y) == \E k \in DOMAIN x \cup DOMAIN y : GetOrZero(x, k) < GetOrZero(y, k)

SomeGreater(x, y) == \E k \in DOMAIN x \cup DOMAIN y : GetOrZero(x, k) > GetOrZero(y, k)

\* C9: the comparison of two snapshots, over the union of their keys with a
\* missing key read as 0, is Concurrent (None) exactly when some key has A<B and
\* some key has A>B, Less exactly when some key has A<B and none A>B, Greater
\* exactly when some key has A>B and none A<B, Equal exactly when none differs.
C9_ThreeWayComparison ==
    cmp_result # NoResult =>
        /\ cmp_result = "None" <=> (SomeLess(a, b) /\ SomeGreater(a, b))
        /\ cmp_result = "Less" <=> (SomeLess(a, b) /\ ~SomeGreater(a, b))
        /\ cmp_result = "Greater" <=> (SomeGreater(a, b) /\ ~SomeLess(a, b))
        /\ cmp_result = "Equal" <=> (~SomeLess(a, b) /\ ~SomeGreater(a, b))

\* {P:2} has been compared with {Q:1}: Concurrent.
C9_Witness ==
    /\ a = (<<1>> :> 2)
    /\ b = (<<2>> :> 1)
    /\ cmp_result = "None"

\* C10: a.happened_before(b) is true if and only if comparing a.time() with
\* b.time() yields Less.
C10_HappenedBeforeIsLess ==
    (hb_result # NoResult /\ cmp_result # NoResult) =>
        (hb_result = "true" <=> cmp_result = "Less")

\* Both have been evaluated, on clocks where A holds a zero entry and B a key A
\* lacks, and A happened before B.
C10_Witness ==
    /\ hb_result = "true"
    /\ cmp_result = "Less"
    /\ \E k \in DOMAIN a : a[k] = 0
    /\ \E k \in DOMAIN b \ DOMAIN a : b[k] > 0

(***************************************************************************)
(* happened_before() as a relation: three clocks and the comparisons among *)
(* them.  The calls are made in the order of OrdCalls, each once; the      *)
(* third clock is created, with any vector, once a.happened_before(&b)     *)
(* has returned true, and a.happened_before(&c) is asked once              *)
(* b.happened_before(&c) has returned true.                                *)
(***************************************************************************)
OrdEntry == 1

\* The vectors the three clocks are created with.
OrdVectors == UNION { [D -> 0 .. OrdEntry] : D \in SUBSET Nodes }

OrdCalls == << "cmp_aa", "hb_aa", "hb_ab", "hb_ba", "c", "hb_bc", "hb_ac" >>

RelInit(calls_made) == rel = [n \in { calls_made[i] : i \in DOMAIN calls_made } |-> NoResult]

\* The call `name` is the next one to make: those before it in `order` are made.
IsNext(order, name) ==
    \E i \in DOMAIN order :
        /\ order[i] = name
        /\ rel[name] = NoResult
        /\ \A j \in 1 .. (i - 1) : rel[order[j]] # NoResult

BoolResult(flag) == IF flag THEN "true" ELSE "false"

OrdFrame ==
    /\ UNCHANGED << lamport_vars, vclock_vars, ops_vars, bytes_vars, sys_vars, lam_vars >>

\* x.happened_before(&y), its result kept under `name`.
HappenedBeforeOf(name, x, y, ord1, ord2) ==
    /\ rel' = [rel EXCEPT ![name] = BoolResult(HappenedBefore(x, y, ord1, ord2))]
    /\ UNCHANGED clock_c
    /\ OrdFrame

\* x.time().partial_cmp(&y.time()), its result kept under `name`.
PartialCmpOf(name, x, y, ord) ==
    /\ rel' = [rel EXCEPT ![name] = PartialCmp(VClockTime(x), VClockTime(y), ord)]
    /\ UNCHANGED clock_c
    /\ OrdFrame

\* The third clock is created with the vector vec.
CreateC(vec) ==
    /\ IsNext(OrdCalls, "c")
    /\ rel["hb_ab"] = "true"
    /\ clock_c' = vec
    /\ rel' = [rel EXCEPT !["c"] = "created"]
    /\ OrdFrame

SelfCmp ==
    /\ IsNext(OrdCalls, "cmp_aa")
    /\ \E ord \in Orders(PartialCmpKeys(VClockTime(a), VClockTime(a))) :
           PartialCmpOf("cmp_aa", a, a, ord)

SelfHb ==
    /\ IsNext(OrdCalls, "hb_aa")
    /\ \E ord1 \in Orders(DOMAIN a), ord2 \in Orders(DOMAIN a) :
           HappenedBeforeOf("hb_aa", a, a, ord1, ord2)

HbAB ==
    /\ IsNext(OrdCalls, "hb_ab")
    /\ \E ord1 \in Orders(DOMAIN a), ord2 \in Orders(DOMAIN b) :
           HappenedBeforeOf("hb_ab", a, b, ord1, ord2)

HbBA ==
    /\ IsNext(OrdCalls, "hb_ba")
    /\ \E ord1 \in Orders(DOMAIN b), ord2 \in Orders(DOMAIN a) :
           HappenedBeforeOf("hb_ba", b, a, ord1, ord2)

HbBC ==
    /\ IsNext(OrdCalls, "hb_bc")
    /\ \E ord1 \in Orders(DOMAIN b), ord2 \in Orders(DOMAIN clock_c) :
           HappenedBeforeOf("hb_bc", b, clock_c, ord1, ord2)

HbAC ==
    /\ IsNext(OrdCalls, "hb_ac")
    /\ rel["hb_bc"] = "true"
    /\ \E ord1 \in Orders(DOMAIN a), ord2 \in Orders(DOMAIN clock_c) :
           HappenedBeforeOf("hb_ac", a, clock_c, ord1, ord2)

NextOrd ==
    \/ SelfCmp
    \/ SelfHb
    \/ HbAB
    \/ HbBA
    \/ \E vec \in OrdVectors : CreateC(vec)
    \/ HbBC
    \/ HbAC

InitOrd ==
    /\ LamportInit
    /\ overflow_checks = FALSE
    /\ a0 \in OrdVectors
    /\ b0 \in OrdVectors
    /\ a = a0
    /\ b = b0
    /\ merges = <<>>
    /\ hb_result = NoResult
    /\ cmp_result = NoResult
    /\ clock_c = EmptyVector
    /\ RelInit(OrdCalls)
    /\ OpsIdle
    /\ BytesIdle
    /\ SysIdle
    /\ LamIdle

SpecOrd == InitOrd /\ [][NextOrd]_vars

\* C11: happened_before() is antisymmetric: a.happened_before(&b) and
\* b.happened_before(&a) are never both true, whatever order the maps are iterated in.
C11_HappenedBeforeAntisymmetric ==
    ~(rel["hb_ab"] = "true" /\ rel["hb_ba"] = "true")

\* Both calls were made, on clocks with different key sets, and the first returned true.
C11_Witness ==
    /\ rel["hb_ab"] = "true"
    /\ rel["hb_ba"] = "false"
    /\ DOMAIN a # DOMAIN b
    /\ DOMAIN b \ DOMAIN a # {}

\* C12: happened_before() is a strict partial order on clocks with any key sets:
\* irreflexive (a clock compared with itself is Equal, and a.happened_before(&a) is
\* false) and transitive (a before b and b before c give a before c).
C12_StrictPartialOrder ==
    /\ rel["cmp_aa"] \in { NoResult, "Equal" }
    /\ rel["hb_aa"] \in { NoResult, "false" }
    /\ rel["hb_ac"] \in { NoResult, "true" }

\* a before b before c was established on three clocks with three different key sets,
\* and a.happened_before(&c) was asked.
C12_Witness ==
    /\ rel["cmp_aa"] = "Equal"
    /\ rel["hb_aa"] = "false"
    /\ rel["hb_ab"] = "true"
    /\ rel["hb_bc"] = "true"
    /\ rel["hb_ac"] # NoResult
    /\ DOMAIN a # DOMAIN b
    /\ DOMAIN b # DOMAIN clock_c
    /\ DOMAIN a # DOMAIN clock_c

(***************************************************************************)
(* One VClock under a sequence of increment() and merge() calls by its     *)
(* owner.  The clock starts with any vector (VClock derives Deserialize,   *)
(* so an entry may hold any u64, the largest included); last_op says what  *)
(* the last call was and what it met.                                      *)
(***************************************************************************)
OpsVectors == UNION { [D -> (0 .. MaxEntry) \cup { U64Max - 1, U64Max }] : D \in SUBSET Nodes }

\* The clocks merged into clock_v.
OpsOthers == UNION { [D -> { MaxEntry }] : D \in SUBSET Nodes }

OpsFrame ==
    /\ UNCHANGED << lamport_vars, vclock_vars, ord_vars, bytes_vars, sys_vars, lam_vars >>

\* *entry += 1
IncrementEntryReset(entry) == 1

IncrementEntry(entry) == WrappingAdd(entry, 1)

\* What increment(node) meets in the clock.
EntryWas(vec, node) ==
    IF node \notin DOMAIN vec THEN "absent"
    ELSE IF vec[node] = U64Max THEN "max"
    ELSE "below"

\* increment(&mut self, node_id): entry(node_id).or_insert(0), then *entry += 1, which
\* panics on overflow when the build has overflow checks and wraps when it has not.
VIncrement(node) ==
    /\ ~last_op.panicked
    /\ LET entry == GetOrZero(clock_v, node)
           seeded == [k \in DOMAIN clock_v \cup {node} |-> GetOrZero(clock_v, k)]
           panics == Overflows(entry, 1) /\ overflow_checks
       IN /\ clock_v' = IF panics THEN seeded
                        ELSE [seeded EXCEPT ![node] = IncrementEntry(entry)]
          /\ last_op' = [op |-> "increment", node |-> node, was |-> EntryWas(clock_v, node),
                         prev |-> last_op.op, panicked |-> panics]
    /\ OpsFrame

\* merge(&mut self, other)
VMerge(other, ord) ==
    /\ ~last_op.panicked
    /\ clock_v' = Merge(clock_v, other, ord)
    /\ last_op' = [op |-> "merge", node |-> << >>,
                   was |-> IF clock_v' = clock_v THEN "same" ELSE "grew",
                   prev |-> last_op.op, panicked |-> FALSE]
    /\ OpsFrame

NextOps ==
    \/ \E node \in Nodes : VIncrement(node)
    \/ \E other \in OpsOthers : \E ord \in Orders(DOMAIN other) : VMerge(other, ord)

InitOps ==
    /\ LamportInit
    /\ VClockIdle
    /\ OrdIdle
    /\ clock_v \in OpsVectors
    /\ last_op = NoOp
    /\ BytesIdle
    /\ SysIdle
    /\ LamIdle

SpecOps == InitOps /\ [][NextOps]_vars

\* Every entry of y is at least the entry of x, and no key of x is missing from y.
NonDecreasing(x, y) ==
    /\ DOMAIN x \subseteq DOMAIN y
    /\ \A k \in DOMAIN x : y[k] >= x[k]

AllBelowMax(vec) == \A k \in DOMAIN vec : vec[k] < U64Max

\* C13: along any sequence of increment(id) and merge(other) calls by the clock's
\* owner, with the counters below the maximum, every entry of the clock is
\* non-decreasing and no key is ever removed.
C13_EntriesNonDecreasing ==
    [][AllBelowMax(clock_v) => NonDecreasing(clock_v, clock_v')]_vars

\* A merge that raised the clock or added a key followed an increment.
C13_Witness ==
    /\ last_op.op = "merge"
    /\ last_op.was = "grew"
    /\ last_op.prev = "increment"
    /\ AllBelowMax(clock_v)

\* What C14 says of one increment(node): the entry for node is one more than it was
\* (0 when absent), the key is present, and every other entry is as it was.
IncrementPost(old, node, new) ==
    /\ DOMAIN new = DOMAIN old \cup {node}
    /\ new[node] = GetOrZero(old, node) + 1
    /\ \A k \in DOMAIN old \ {node} : new[k] = old[k]

\* C14: increment(id) raises the entry for id by exactly 1, creating it at 1 if
\* absent (an entry seeded at 0 becomes 1), and leaves every other entry unchanged.
C14_IncrementByOne ==
    [][\A node \in Nodes : VIncrement(node) => IncrementPost(clock_v, node, clock_v')]_vars

\* C14 holds of every increment(id) whose entry is below the maximum.
C14_BelowMax ==
    [][\A node \in Nodes :
          VIncrement(node) /\ GetOrZero(clock_v, node) < U64Max
              => IncrementPost(clock_v, node, clock_v')]_vars

\* An absent entry was created at 1, beside another entry.
C14_BelowMaxWitness ==
    /\ last_op.op = "increment"
    /\ last_op.was = "absent"
    /\ clock_v[last_op.node] = 1
    /\ DOMAIN clock_v # { last_op.node }

(***************************************************************************)
(* The byte encoding of a LamportClock.  The counter is a word of Width    *)
(* bits here, so its fixed-length big-endian encoding has CounterLen units *)
(* of one bit each where the u64 has 8 bytes; the owner's bytes follow.    *)
(***************************************************************************)
ByteBase == 2

CounterLen == Width

\* The byte strings that may be received, up to one unit longer than a counter.
ByteStrings == UNION { [1 .. n -> 0 .. (ByteBase - 1)] : n \in 0 .. (CounterLen + 1) }

\* u64::to_be_bytes(): the most significant unit first.
ToBeBytes(n) == [i \in 1 .. CounterLen |-> (n \div (ByteBase ^ (CounterLen - i))) % ByteBase]

\* u64::from_be_bytes()
RECURSIVE FromLeBytes(_)
FromLeBytes(bs) ==
    IF bs = << >> THEN 0 ELSE Head(bs) + ByteBase * FromLeBytes(Tail(bs))

RECURSIVE FromBeBytes(_)
FromBeBytes(bs) ==
    IF bs = << >> THEN 0
    ELSE FromBeBytes(SubSeq(bs, 1, Len(bs) - 1)) * ByteBase + bs[Len(bs)]

\* to_bytes(&self): the counter's bytes, then self.id.0
ToBytes(cnt, owner) == ToBeBytes(cnt) \o owner

\* from_bytes(data): None when data is shorter than a counter, else the counter from
\* the first bytes and the identifier from the rest.
FromBytes(bytes) ==
    IF Len(bytes) < CounterLen
    THEN [called |-> TRUE, some |-> FALSE, counter |-> 0, id |-> << >>]
    ELSE [called |-> TRUE, some |-> TRUE,
          counter |-> FromBeBytes(SubSeq(bytes, 1, CounterLen)),
          id |-> SubSeq(bytes, CounterLen + 1, Len(bytes))]

BytesFrame ==
    /\ UNCHANGED << lamport_vars, vclock_vars, ord_vars, ops_vars, sys_vars, lam_vars >>

\* clock.to_bytes()
ToBytesCall ==
    /\ data.of = "none"
    /\ data' = [bytes |-> ToBytes(counter, id), of |-> "clock"]
    /\ UNCHANGED decoded
    /\ BytesFrame

\* Any bytes arrive instead.
ReceiveBytes(bytes) ==
    /\ data.of = "none"
    /\ data' = [bytes |-> bytes, of |-> "wire"]
    /\ UNCHANGED decoded
    /\ BytesFrame

\* LamportClock::from_bytes(&data)
FromBytesCall ==
    /\ data.of # "none"
    /\ ~decoded.called
    /\ decoded' = FromBytes(data.bytes)
    /\ UNCHANGED data
    /\ BytesFrame

NextBytes ==
    \/ ToBytesCall
    \/ \E bytes \in ByteStrings : ReceiveBytes(bytes)
    \/ FromBytesCall

\* A clock in any state: any counter, any owner.
InitBytes ==
    /\ counter \in 0 .. U64Max
    /\ id \in Ids
    /\ overflow_checks \in BOOLEAN
    /\ pc = [t \in Threads |-> "idle"]
    /\ other_time = [t \in Threads |-> NoTime]
    /\ current_time = [t \in Threads |-> 0]
    /\ old_value = [t \in Threads |-> 0]
    /\ calls = [t \in Threads |-> 0]
    /\ rets = [t \in Threads |-> << >>]
    /\ observed = NoTime
    /\ covered = [t \in Threads |-> FALSE]
    /\ witnessed = NoTime
    /\ VClockIdle
    /\ OrdIdle
    /\ OpsIdle
    /\ BytesIdle
    /\ SysIdle
    /\ LamIdle

SpecBytes == InitBytes /\ [][NextBytes]_vars

\* The value of a big-endian string of units, as a sum.
BigEndianValue(bs) ==
    LET part[i \in 0 .. Len(bs)] ==
            IF i = 0 THEN 0 ELSE part[i - 1] + bs[i] * ByteBase ^ (Len(bs) - i)
    IN part[Len(bs)]

\* C15: the bytes of to_bytes() are the fixed-length big-endian counter followed by
\* the raw owner bytes, and from_bytes() of them succeeds with the same counter and
\* the same owner bytes, for any counter and any owner (the empty one included).
C15_BytesRoundTrip ==
    data.of = "clock" =>
        /\ Len(data.bytes) = CounterLen + Len(id)
        /\ BigEndianValue(SubSeq(data.bytes, 1, CounterLen)) = counter
        /\ SubSeq(data.bytes, CounterLen + 1, Len(data.bytes)) = id
        /\ decoded.called =>
               /\ decoded.some
               /\ decoded.counter = counter
               /\ decoded.id = id

\* The bytes of a clock with the empty owner and a counter whose encoding is not a
\* palindrome were decoded.
C15_Witness ==
    /\ data.of = "clock"
    /\ decoded.called
    /\ id = << >>
    /\ counter = U64Max - 1

\* from_bytes() fails only when the input is shorter than a counter.
FromBytesFailsOnlyWhenShort ==
    decoded.called => (decoded.some <=> Len(data.bytes) >= CounterLen)

(***************************************************************************)
(* Further properties of the Lamport clock.                                *)
(***************************************************************************)
\* C16 as stated: alone on the clock, a compare(remote) with remote above the clock's
\* time, whatever remote's counter (the largest included), returns with the counter
\* strictly greater than it was before the call.
C16_CompareRaisesCounter ==
    [][CmpCas(1) => (pc'[1] = "idle" /\ counter' > counter)]_vars

\* The same for every remote counter below the maximum of the integer type.
C16_BelowMax ==
    [][(CmpCas(1) /\ other_time[1][1] < U64Max)
          => (pc'[1] = "idle" /\ counter' > counter)]_vars

\* Such a compare() has returned after raising the counter.
C16_BelowMaxWitness ==
    /\ witnessed # NoTime
    /\ witnessed[1] = U64Max - 1
    /\ counter = U64Max
    /\ pc[1] = "idle"

\* A step of thread t inside a compare() call.
CompareStep(t) == CmpLoad(t) \/ CmpCas(t)

\* Every thread inside a compare() call goes on taking steps; a thread between calls,
\* or inside increment(), may stop for good.
Fairness == \A t \in Threads : WF_vars(CompareStep(t))

SpecFair == Init /\ [][Next]_vars /\ Fairness

InCompare(t) == pc[t] \in { "cmp_cas", "cmp_load" }

\* C17 as stated: under weak fairness, with finitely many calls by the other threads,
\* every compare() call that has entered its loop eventually returns, whether or not
\* the other threads go on taking steps.
C17_CompareEventuallyReturns ==
    \A t \in Threads : InCompare(t) ~> (pc[t] = "idle")

\* Every compare() call eventually ends, by returning or by the overflow panic: none
\* waits on another thread.
C17_ReturnsOrPanics ==
    \A t \in Threads : InCompare(t) ~> (pc[t] \in { "idle", "panicked" })

\* Without overflow checks every compare() call eventually returns.
C17_ReturnsWithoutChecks ==
    \A t \in Threads : (InCompare(t) /\ ~overflow_checks) ~> (pc[t] = "idle")

\* A compare() call returned after a failed compare_exchange.
C17_RetryWitness ==
    \E t \in Threads : pc[t] = "cmp_load"

(***************************************************************************)
(* A seeded clock.  A Vector is built with add(), VClock::with_vector()    *)
(* makes the third clock of it, and merge(&a) brings that clock to a's     *)
(* entries: it is then a extended with an entry 0 for every seeded         *)
(* identifier absent from a.  It is compared with b and with a, as a is,   *)
(* in the order of SeedCalls.                                              *)
(***************************************************************************)
SeedCalls == << "c", "cmp_sb", "cmp_ab", "hb_sb", "hb_ab", "cmp_sa", "eq_sa" >>

\* Vector::add(id): self.data.insert(id, 0)
VectorInsertOne(vec, node) == [k \in DOMAIN vec \cup {node} |-> IF k = node THEN 1 ELSE vec[k]]

VectorInsert(vec, node) == [k \in DOMAIN vec \cup {node} |-> IF k = node THEN 0 ELSE vec[k]]

\* VClock::with_vector(vector): the clock's map is the vector's
WithVector(vec) == vec

\* The derived PartialEq of VClockTime: the maps have the same keys and values.
VClockTimeEq(x, y) == x = y

\* vector.add(node), on the Vector under construction.
VectorAdd(node) ==
    /\ rel["c"] = NoResult
    /\ clock_c' = VectorInsert(clock_c, node)
    /\ UNCHANGED rel
    /\ OrdFrame

\* VClock::with_vector(vector)
WithVectorCall ==
    /\ rel["c"] = NoResult
    /\ clock_c' = WithVector(clock_c)
    /\ rel' = [rel EXCEPT !["c"] = "created"]
    /\ OrdFrame

\* The seeded clock merges a.
SeedMerge(ord) ==
    /\ rel["c"] = "created"
    /\ clock_c' = Merge(clock_c, a, ord)
    /\ rel' = [rel EXCEPT !["c"] = "merged"]
    /\ OrdFrame

SeedCmpB ==
    /\ IsNext(SeedCalls, "cmp_sb")
    /\ rel["c"] = "merged"
    /\ \E ord \in Orders(PartialCmpKeys(VClockTime(clock_c), VClockTime(b))) :
           PartialCmpOf("cmp_sb", clock_c, b, ord)

PlainCmpB ==
    /\ IsNext(SeedCalls, "cmp_ab")
    /\ \E ord \in Orders(PartialCmpKeys(VClockTime(a), VClockTime(b))) :
           PartialCmpOf("cmp_ab", a, b, ord)

SeedHbB ==
    /\ IsNext(SeedCalls, "hb_sb")
    /\ \E ord1 \in Orders(DOMAIN clock_c), ord2 \in Orders(DOMAIN b) :
           HappenedBeforeOf("hb_sb", clock_c, b, ord1, ord2)

PlainHbB ==
    /\ IsNext(SeedCalls, "hb_ab")
    /\ \E ord1 \in Orders(DOMAIN a), ord2 \in Orders(DOMAIN b) :
           HappenedBeforeOf("hb_ab", a, b, ord1, ord2)

SeedCmpA ==
    /\ IsNext(SeedCalls, "cmp_sa")
    /\ \E ord \in Orders(PartialCmpKeys(VClockTime(clock_c), VClockTime(a))) :
           PartialCmpOf("cmp_sa", clock_c, a, ord)

\* seeded.time() == a.time()
SeedEqA ==
    /\ IsNext(SeedCalls, "eq_sa")
    /\ rel' = [rel EXCEPT !["eq_sa"] = BoolResult(VClockTimeEq(VClockTime(clock_c), VClockTime(a)))]
    /\ UNCHANGED clock_c
    /\ OrdFrame

NextSeed ==
    \/ \E node \in Nodes : VectorAdd(node)
    \/ WithVectorCall
    \/ \E ord \in Orders(DOMAIN a) : SeedMerge(ord)
    \/ SeedCmpB
    \/ PlainCmpB
    \/ SeedHbB
    \/ PlainHbB
    \/ SeedCmpA
    \/ SeedEqA

InitSeed ==
    /\ LamportInit
    /\ overflow_checks = FALSE
    /\ a0 \in OrdVectors
    /\ b0 \in OrdVectors
    /\ a = a0
    /\ b = b0
    /\ merges = <<>>
    /\ hb_result = NoResult
    /\ cmp_result = NoResult
    /\ clock_c = EmptyVector
    /\ RelInit(SeedCalls)
    /\ OpsIdle
    /\ BytesIdle
    /\ SysIdle
    /\ LamIdle

SpecSeed == InitSeed /\ [][NextSeed]_vars

\* x is y extended with entries of value 0 for identifiers absent from y.
ExtendsWithZeros(x, y) ==
    /\ DOMAIN y \subseteq DOMAIN x
    /\ \A k \in DOMAIN y : x[k] = y[k]
    /\ \A k \in DOMAIN x \ DOMAIN y : x[k] = 0

\* C18: a seeded zero entry does not affect comparisons but does affect equality.
\* With the seeded clock being a extended with zero entries: its three-way comparison
\* with b and its happened_before(&b) give what a's give, its comparison with a is
\* Equal, and it is not structurally equal to a when an entry was added.
C18_SeededZeroEntries ==
    rel["c"] = "merged" =>
        /\ ExtendsWithZeros(clock_c, a)
        /\ rel["cmp_ab"] # NoResult => rel["cmp_sb"] = rel["cmp_ab"]
        /\ rel["hb_ab"] # NoResult => rel["hb_sb"] = rel["hb_ab"]
        /\ rel["cmp_sa"] \in { NoResult, "Equal" }
        /\ (rel["eq_sa"] # NoResult /\ DOMAIN clock_c # DOMAIN a) => rel["eq_sa"] = "false"

\* All the calls were made on a seeded clock that has an entry a has not, beside a's
\* own non-zero entry, and b is above a.
C18_Witness ==
    /\ rel["c"] = "merged"
    /\ DOMAIN clock_c # DOMAIN a
    /\ \E k \in DOMAIN a : a[k] > 0
    /\ rel["cmp_ab"] = "Less"
    /\ rel["hb_ab"] = "true"
    /\ rel["cmp_sa"] = "Equal"
    /\ rel["eq_sa"] = "false"

\* The clock's time is at or above the remote time r, strictly above it when r's owner
\* is not the clock's, and the counter is at least r's.
TimeCovers(r) ==
    /\ LamportTimeLe(r, Time)
    /\ r[2] # id => LamportTimeLt(r, Time)
    /\ counter >= r[1]

\* C19 as stated: in every interleaving of compare() and increment() calls, with the
\* remote counters below the maximum, from the moment a compare(remote) returns the
\* clock's time is at or above remote, strictly above it when the owners differ, and
\* the counter is at least remote's counter.
C19_TimeCoversWitnessed ==
    (witnessed # NoTime /\ witnessed[1] < U64Max) => TimeCovers(witnessed)

\* C19 for runs in which the counter stays below the maximum of the integer type.
C19_BelowMax ==
    (witnessed # NoTime /\ NoWrapSoFar) => TimeCovers(witnessed)

\* A compare() returned leaving the counter equal to the remote counter, not above it.
C19_BelowMaxWitness ==
    /\ witnessed # NoTime
    /\ NoWrapSoFar
    /\ counter = witnessed[1]
    /\ witnessed[2] # id

(***************************************************************************)
(* A system of processes, each with an identifier of its own and one       *)
(* VClock.  A local or send event increments the process's own entry and   *)
(* attaches time() to the event; a receive event merges the snapshot       *)
(* attached to a send event of another process, increments the own entry   *)
(* and attaches time().  Beside its snapshot each event carries `past`,    *)
(* the events that causally precede it by program order and message        *)
(* delivery; no clock is consulted for it.                                 *)
(***************************************************************************)
MaxEvents == 5

Procs == Nodes

\* increment(&mut self, node_id) on an entry below the maximum.
Incremented(vec, node) ==
    [k \in DOMAIN vec \cup {node} |->
        IF k = node THEN IncrementEntry(GetOrZero(vec, node)) ELSE vec[k]]

\* The clock of a receive event: merge(snapshot), then increment(own id).
ReceivedNoIncrement(own, snapshot, ord, node) == Merge(own, snapshot, ord)

Received(own, snapshot, ord, node) == Incremented(Merge(own, snapshot, ord), node)

\* The events of process p so far.
EventsOf(p) == { i \in DOMAIN events : events[i].proc = p }

\* What precedes the next event of p by program order: its last event and that one's past.
ProgramPast(p) ==
    IF EventsOf(p) = {} THEN {}
    ELSE LET last == CHOOSE i \in EventsOf(p) : \A j \in EventsOf(p) : j <= i
         IN events[last].past \cup {last}

SysFrame ==
    /\ UNCHANGED << lamport_vars, vclock_vars, ord_vars, ops_vars, bytes_vars, lam_vars >>

\* A local or send event of process p.
LocalEvent(p) ==
    /\ Len(events) < MaxEvents
    /\ ~Overflows(GetOrZero(vcs[p], p), 1)
    /\ vcs' = [vcs EXCEPT ![p] = Incremented(vcs[p], p)]
    /\ events' = Append(events, [proc |-> p, kind |-> "send",
                                 snap |-> VClockTime(vcs'[p]), past |-> ProgramPast(p)])
    /\ SysFrame

\* Process p receives the message of the send event m of another process.
ReceiveEvent(p, m, ord) ==
    /\ Len(events) < MaxEvents
    /\ events[m].kind = "send"
    /\ events[m].proc # p
    /\ ~Overflows(Max(GetOrZero(vcs[p], p), GetOrZero(events[m].snap, p)), 1)
    /\ vcs' = [vcs EXCEPT ![p] = Received(vcs[p], events[m].snap, ord, p)]
    /\ events' = Append(events, [proc |-> p, kind |-> "recv",
                                 snap |-> VClockTime(vcs'[p]),
                                 past |-> ProgramPast(p) \cup events[m].past \cup {m}])
    /\ SysFrame

NextSys ==
    \E p \in Procs :
        \/ LocalEvent(p)
        \/ \E m \in DOMAIN events : \E ord \in Orders(DOMAIN events[m].snap) :
               ReceiveEvent(p, m, ord)

InitSys ==
    /\ LamportInit
    /\ overflow_checks = FALSE
    /\ VClockIdle
    /\ OrdIdle
    /\ OpsIdle
    /\ BytesIdle
    /\ vcs = [p \in Procs |-> EmptyVector]
    /\ events = << >>
    /\ LamIdle

SpecSys == InitSys /\ [][NextSys]_vars

\* Event i causally precedes event j.
Precedes(i, j) == i \in events[j].past

\* The three-way comparison of the snapshots of events i and j gives `result`,
\* whatever order the keys are visited in.
SnapshotsCompare(i, j, result) ==
    \A ord \in Orders(PartialCmpKeys(events[i].snap, events[j].snap)) :
        PartialCmp(events[i].snap, events[j].snap, ord) = result

\* C20: for any two distinct events e and f of the system, e causally precedes f
\* exactly when their snapshots compare Less, e and f are causally unrelated exactly
\* when they compare as concurrent, and they never compare Equal.
C20_VectorClocksCharacteriseCausality ==
    \A i, j \in DOMAIN events :
        i # j =>
            IF Precedes(i, j) THEN SnapshotsCompare(i, j, "Less")
            ELSE IF Precedes(j, i) THEN SnapshotsCompare(i, j, "Greater")
            ELSE SnapshotsCompare(i, j, "None")

\* A receive event follows a send event of another process, whose earlier event
\* precedes it through the message only, and some two events are unrelated.
C20_Witness ==
    /\ \E i, j \in DOMAIN events :
           /\ events[j].kind = "recv"
           /\ events[i].proc # events[j].proc
           /\ Precedes(i, j)
           /\ \E m \in DOMAIN events : Precedes(i, m) /\ Precedes(m, j)
    /\ \E i, j \in DOMAIN events : i # j /\ ~Precedes(i, j) /\ ~Precedes(j, i)

(***************************************************************************)
(* A system of processes, each with an owner identifier of its own and one *)
(* LamportClock, used by that process alone.  A local or send event takes  *)
(* the time increment() returns as its timestamp; a receive event calls    *)
(* compare() with the timestamp of a send event of another process, then   *)
(* increment(), and takes the time that returns.  Beside its timestamp     *)
(* each event carries `past`, the events that causally precede it by       *)
(* program order and message delivery.  The counters start at 1 and rise   *)
(* by at most 2 an event, so events are not taken once a counter of the    *)
(* modelled width would overflow.                                          *)
(***************************************************************************)
\* compare(other_time) by the only thread on the clock: the counter it leaves.  Its
\* compare_exchange meets the counter it loaded.
ComparedIgnored(cnt, owner, other) == cnt

Compared(cnt, owner, other) ==
    IF CompareSkips(other, LamportTime(cnt, owner)) THEN cnt
    ELSE IF CompareExchangeOk(cnt, cnt) THEN CompareNewValue(other)
    ELSE cnt

\* The events of process p so far.
LEventsOf(p) == { i \in DOMAIN levents : levents[i].proc = p }

\* What precedes the next event of p by program order: its last event and that one's past.
LProgramPast(p) ==
    IF LEventsOf(p) = {} THEN {}
    ELSE LET last == CHOOSE i \in LEventsOf(p) : \A j \in LEventsOf(p) : j <= i
         IN levents[last].past \cup {last}

LamFrame ==
    /\ UNCHANGED << lamport_vars, vclock_vars, ord_vars, ops_vars, bytes_vars, sys_vars >>

\* A local or send event of process p: increment().
LLocalEvent(p) ==
    /\ Len(levents) < MaxEvents
    /\ ~Overflows(lclocks[p], 1)
    /\ lclocks' = [lclocks EXCEPT ![p] = FetchAdd(lclocks[p])]
    /\ levents' = Append(levents, [proc |-> p, kind |-> "send",
                                   ts |-> LamportTime(IncrementResult(lclocks[p]), p),
                                   past |-> LProgramPast(p)])
    /\ LamFrame

\* Process p receives the message of the send event m of another process:
\* compare(its timestamp), then increment().
LReceiveEvent(p, m) ==
    /\ Len(levents) < MaxEvents
    /\ levents[m].kind = "send"
    /\ levents[m].proc # p
    /\ ~Overflows(levents[m].ts[1], 1)
    /\ LET folded == Compared(lclocks[p], p, levents[m].ts)
       IN /\ ~Overflows(folded, 1)
          /\ lclocks' = [lclocks EXCEPT ![p] = FetchAdd(folded)]
          /\ levents' = Append(levents, [proc |-> p, kind |-> "recv",
                                         ts |-> LamportTime(IncrementResult(folded), p),
                                         past |-> LProgramPast(p) \cup levents[m].past \cup {m}])
    /\ LamFrame

NextLam ==
    \E p \in Procs :
        \/ LLocalEvent(p)
        \/ \E m \in DOMAIN levents : LReceiveEvent(p, m)

InitLam ==
    /\ LamportInit
    /\ overflow_checks = FALSE
    /\ VClockIdle
    /\ OrdIdle
    /\ OpsIdle
    /\ BytesIdle
    /\ SysIdle
    /\ lclocks = [p \in Procs |-> InitialCounter]
    /\ levents = << >>

SpecLam == InitLam /\ [][NextLam]_vars

\* Event i causally precedes event j.
LPrecedes(i, j) == i \in levents[j].past

\* C21: whenever event e causally precedes event f, the counter of e's timestamp is
\* below the counter of f's (hence e's timestamp is below f's in the total order),
\* and no two distinct events of the system have equal timestamps.
C21_LamportClockCondition ==
    \A i, j \in DOMAIN levents :
        i # j =>
            /\ levents[i].ts # levents[j].ts
            /\ LPrecedes(i, j) =>
                   /\ levents[i].ts[1] < levents[j].ts[1]
                   /\ LamportTimeLt(levents[i].ts, levents[j].ts)

\* A receive event raised its clock to the message's timestamp, an earlier event of
\* the sender precedes it through the message only, and two unrelated events of
\* different processes carry the same counter.
C21_Witness ==
    /\ \E i, j \in DOMAIN levents :
           /\ levents[j].kind = "recv"
           /\ levents[i].proc # levents[j].proc
           /\ LPrecedes(i, j)
           /\ \E m \in DOMAIN levents : LPrecedes(i, m) /\ LPrecedes(m, j)
           /\ levents[j].ts[1] > Cardinality(LEventsOf(levents[j].proc)) + 1
    /\ \E i, j \in DOMAIN levents :
           /\ i # j
           /\ ~LPrecedes(i, j)
           /\ ~LPrecedes(j, i)
           /\ levents[i].ts[1] = levents[j].ts[1]

====
